---- MODULE Spec2Model ----
(***************************************************************************)
(* Model of src/app.py (Document Summarizer): the request handler          *)
(* process_document, the helpers is_valid_file_extension and               *)
(* extract_text_from_file, and the cached load_summarization_model.        *)
(*                                                                         *)
(* Strings are sequences of one-character strings.  The external           *)
(* collaborators (the temporary-file layer, pdfplumber, the transformers   *)
(* pipeline) are modelled by the outcomes they can hand back.              *)
(***************************************************************************)
EXTENDS Integers, Sequences, FiniteSets, TLC

(* ------------------------------------------------------------------ *)
(* Program constants                                                   *)
(* ------------------------------------------------------------------ *)

MAX_TEXT_LENGTH == 1024

ALLOWED_EXTENSIONS == { <<"p", "d", "f">>, <<"t", "x", "t">> }

(* ------------------------------------------------------------------ *)
(* Bounds of the model                                                 *)
(* ------------------------------------------------------------------ *)

\* requests made within one process lifetime / session
MaxRequests == 2

\* pages of a PDF handed to extract_text_from_file
MaxPages == 2

\* characters of one short text (a page's text, a small text file)
MaxLen == 2

\* how far a long text may exceed MAX_TEXT_LENGTH
MaxOver == 1

(* ------------------------------------------------------------------ *)
(* Strings                                                             *)
(* ------------------------------------------------------------------ *)

SeqsUpTo(S, n) == UNION { [1..k -> S] : k \in 0..n }

IsSpace(c) == c \in {" ", "\n", "\t"}

lower_char(c) ==
    CASE c = "P" -> "p"
      [] c = "D" -> "d"
      [] c = "F" -> "f"
      [] c = "T" -> "t"
      [] c = "X" -> "x"
      [] OTHER   -> c

\* str.lower()
lower(s) == [i \in 1..Len(s) |-> lower_char(s[i])]

\* '.' in filename
has_dot(filename) == \E i \in 1..Len(filename) : filename[i] = "."

\* index of the last '.', 0 when there is none
RECURSIVE last_dot_from(_, _)
last_dot_from(filename, i) ==
    IF i = 0 THEN 0
    ELSE IF filename[i] = "." THEN i
    ELSE last_dot_from(filename, i - 1)

\* filename.rsplit('.', 1)[1]  (only defined when the name holds a dot)
rsplit_ext(filename) ==
    SubSeq(filename, last_dot_from(filename, Len(filename)) + 1, Len(filename))

\* a bug: the dot test is dropped and the text after the last dot (the whole
\* name when there is none) is taken as the extension
is_valid_file_extension_nodot(filename) ==
    lower(rsplit_ext(filename)) \in ALLOWED_EXTENSIONS

is_valid_file_extension(filename) ==
    has_dot(filename) /\ lower(rsplit_ext(filename)) \in ALLOWED_EXTENSIONS

\* index of the first / last character that is not whitespace (0: none)
RECURSIVE first_nonspace(_, _)
first_nonspace(s, i) ==
    IF i > Len(s) THEN 0
    ELSE IF ~IsSpace(s[i]) THEN i
    ELSE first_nonspace(s, i + 1)

RECURSIVE last_nonspace(_, _)
last_nonspace(s, i) ==
    IF i = 0 THEN 0
    ELSE IF ~IsSpace(s[i]) THEN i
    ELSE last_nonspace(s, i - 1)

\* a bug: only the leading whitespace is removed (str.lstrip())
strip_leading_only(s) ==
    IF first_nonspace(s, 1) = 0 THEN <<>>
    ELSE SubSeq(s, first_nonspace(s, 1), Len(s))

\* str.strip()
strip(s) ==
    IF first_nonspace(s, 1) = 0 THEN <<>>
    ELSE SubSeq(s, first_nonspace(s, 1), last_nonspace(s, Len(s)))

\* sep.join(parts)
RECURSIVE join(_, _)
join(sep, parts) ==
    IF parts = <<>> THEN <<>>
    ELSE IF Len(parts) = 1 THEN parts[1]
    ELSE parts[1] \o sep \o join(sep, Tail(parts))

(* ------------------------------------------------------------------ *)
(* Documents: what the libraries find in the uploaded bytes            *)
(* ------------------------------------------------------------------ *)

TextAlphabet == {"a", " "}

ShortTexts == SeqsUpTo(TextAlphabet, MaxLen)

LongTexts ==
    { [i \in 1..n |-> "a"] : n \in (MAX_TEXT_LENGTH - 1)..(MAX_TEXT_LENGTH + MaxOver) }

\* page.extract_text() returns a string or None
NonePage == [none |-> TRUE, text |-> <<>>]

PageOutcomes == {NonePage} \cup { [none |-> FALSE, text |-> t] : t \in ShortTexts }

PdfDoc(pages) == [kind |-> "pdf", pages |-> pages, text |-> <<>>]

TxtDoc(text) == [kind |-> "txt", pages |-> <<>>, text |-> text]

\* bytes that are neither a PDF nor UTF-8 text
BadDoc == [kind |-> "bad", pages |-> <<>>, text |-> <<>>]

\* every document within the bounds (inputs of the extraction)
AllDocuments ==
    { PdfDoc(p) : p \in SeqsUpTo(PageOutcomes, MaxPages) }
        \cup { TxtDoc(t) : t \in ShortTexts }
        \cup { BadDoc }

\* the documents uploaded in the request model
Documents ==
    { PdfDoc(<<>>),
      PdfDoc(<<NonePage>>),
      PdfDoc(<<[none |-> FALSE, text |-> <<" ", "a">>], NonePage>>),
      PdfDoc(<<[none |-> FALSE, text |-> <<"a">>], [none |-> FALSE, text |-> <<"a", " ">>]>>),
      TxtDoc(<<" ">>),
      TxtDoc(<<"a", " ">>),
      BadDoc }
        \cup { TxtDoc(t) : t \in LongTexts }

FileNames ==
    { <<"a", ".", "p", "d", "f">>,
      <<"a", ".", "P", "D", "F">>,
      <<"a", ".", "b", ".", "T", "x", "t">>,
      <<"p", "d", "f">>,
      <<"a", ".", "d", "o", "c", "x">>,
      <<"a", ".", "t", "x", "t", ".">> }

Uploads == [name : FileNames, content : Documents]

\* the text the summarizer can hand back
Summaries == { <<>>, <<"s">>, <<"s", "s">> }

(* ------------------------------------------------------------------ *)
(* State                                                               *)
(* ------------------------------------------------------------------ *)

VARIABLES
    pc,                      \* position of the handler: idle, save, extract, load,
                             \* summarize, stats, store_result, store_stats, finish, returned
    requests,                \* requests started so far in this process
    uploaded_file,           \* the upload: [name, content]
    ui,                      \* what the request has shown so far, in order
    disk,                    \* temporary files that exist
    tmp_file_path,           \* local tmp_file_path (0: not bound)
    extracted_text,          \* local extracted_text (after the truncation step)
    original_length,         \* local original_length
    summarizer,              \* local summarizer: the model instance in use (0: none)
    summary_result,          \* local summary_result
    summary_length,          \* local summary_length
    compression_ratio,       \* local compression_ratio, as the fraction num/den
    model_cache,             \* st.cache_resource entry of load_summarization_model (0: empty)
    pipeline_calls,          \* calls of pipeline(...) in this process
    pipeline_inits,          \* model instances pipeline(...) has built in this process
    session_summary_result,  \* st.session_state.summary_result
    session_stats,           \* st.session_state.stats
    tmp_created,             \* history: the temporary file this request created (0: none)
    extract_calls,           \* history: calls of extract_text_from_file in this request
    extract_returned,        \* history: what extract_text_from_file returned
    summarizer_calls,        \* history: calls of the summarizer in this request
    summarizer_input,        \* history: the text handed to the summarizer
    reached_load,            \* history: the request got to load_summarization_model()
    wrote_result,            \* history: the request assigned session_state.summary_result
    wrote_stats,             \* history: the request assigned session_state.stats
    pre_summary_result,      \* history: session_state.summary_result when the request began
    pre_stats,               \* history: session_state.stats when the request began
    pre_pipeline_calls,      \* history: pipeline_calls when the request began
    pre_model_cache          \* history: model_cache when the request began

locals == <<tmp_file_path, extracted_text, original_length, summarizer,
            summary_result, summary_length, compression_ratio>>

process == <<model_cache, pipeline_calls, pipeline_inits>>

session == <<session_summary_result, session_stats>>

history == <<tmp_created, extract_calls, extract_returned, summarizer_calls,
             summarizer_input, reached_load, wrote_result, wrote_stats,
             pre_summary_result, pre_stats, pre_pipeline_calls, pre_model_cache>>

vars == <<pc, requests, uploaded_file, ui, disk, locals, process, session, history>>

\* 'summary_result' not in st.session_state
NoResult ==
    [present |-> FALSE, summary |-> <<>>, original_text |-> <<>>,
     original_length |-> 0, summary_length |-> 0]

\* 'stats' not in st.session_state
NoStats ==
    [present |-> FALSE, original_length |-> 0, summary_length |-> 0,
     compression_ratio |-> [num |-> 0, den |-> 1]]

NoUpload == [name |-> <<>>, content |-> BadDoc]

\* extract_text_from_file has returned None
NoneText == [some |-> FALSE, val |-> <<>>]

(* ------------------------------------------------------------------ *)
(* What the user sees                                                  *)
(* ------------------------------------------------------------------ *)

Ev(kind, text, value) == [kind |-> kind, text |-> text, value |-> value, allowed |-> {}]

\* progress_bar.progress(n)
Progress(n) == Ev("progress", "", n)

\* status_text.text(t)
Status(t) == Ev("status", t, 0)

\* progress_bar.empty() / status_text.empty()
Empty(widget) == Ev("empty", widget, 0)

\* st.error(t)
Error(t) == Ev("error", t, 0)

\* st.warning(t)
Warning(t) == Ev("warning", t, 0)

\* st.success(t)
Success(t) == Ev("success", t, 0)

\* st.error naming ALLOWED_EXTENSIONS
UnsupportedFileType ==
    [kind |-> "error", text |-> "Unsupported file type. Allowed types",
     value |-> 0, allowed |-> ALLOWED_EXTENSIONS]

(* ------------------------------------------------------------------ *)
(* extract_text_from_file                                              *)
(* ------------------------------------------------------------------ *)

\* page.extract_text() or ""
page_text(page) == IF page.none THEN <<>> ELSE page.text

page_texts(pages) == [i \in 1..Len(pages) |-> page_text(pages[i])]

\* the returned Optional[str] and the st.error calls made on the way;
\* pdfplumber.open raises on bytes that are no PDF, the UTF-8 read on bytes
\* that are no text
extract_text_from_file(content, file_extension) ==
    IF file_extension = <<"p", "d", "f">>
    THEN IF content.kind = "pdf"
         THEN [some |-> TRUE, val |-> strip(join(<<" ">>, page_texts(content.pages))),
               errors |-> <<>>]
         ELSE [some |-> FALSE, val |-> <<>>, errors |-> <<Error("Error extracting text")>>]
    ELSE IF content.kind = "txt"
         THEN [some |-> TRUE, val |-> strip(content.text), errors |-> <<>>]
         ELSE [some |-> FALSE, val |-> <<>>, errors |-> <<Error("Error extracting text")>>]

(* ------------------------------------------------------------------ *)
(* Pieces of process_document                                          *)
(* ------------------------------------------------------------------ *)

\* a bug: only None is tested (extracted_text is None)
not_text_none_only(r) == ~r.some

\* not extracted_text: None and "" are falsy
not_text(r) == ~r.some \/ r.val = <<>>

\* a bug: the text is handed on whole
truncate_missing(text) == text

\* extracted_text[:MAX_TEXT_LENGTH] when longer than MAX_TEXT_LENGTH
truncate(text) ==
    IF Len(text) > MAX_TEXT_LENGTH THEN SubSeq(text, 1, MAX_TEXT_LENGTH) ELSE text

\* a bug: the cache decorator is missing, every call builds a model
cache_hit_never == FALSE

\* st.cache_resource: the function body runs only when nothing is cached
cache_hit == model_cache # 0

\* finally: remove the temporary file if it exists
Finally == disk' = disk \ {tmp_file_path}

\* a bug: the handler swallows the exception (no st.error)
ExceptionHandlerSilent(shown) ==
    /\ ui' = shown \o <<Empty("progress_bar"), Empty("status_text")>>
    /\ UNCHANGED session
    /\ pc' = "returned"

\* a bug: the handler resets the stored results
ExceptionHandlerResetting(shown) ==
    /\ ui' = shown \o <<Error("An error occurred while processing the file"),
                        Empty("progress_bar"), Empty("status_text")>>
    /\ session_summary_result' = NoResult
    /\ session_stats' = NoStats
    /\ pc' = "returned"

\* except Exception: one st.error, then the progress widgets are emptied
\* (both are bound wherever an exception can be raised); the function returns
ExceptionHandler(shown) ==
    /\ ui' = shown \o <<Error("An error occurred while processing the file"),
                        Empty("progress_bar"), Empty("status_text")>>
    /\ UNCHANGED session
    /\ pc' = "returned"

(* ------------------------------------------------------------------ *)
(* Init                                                                *)
(* ------------------------------------------------------------------ *)

\* nothing has run yet: empty session state, empty model cache
Fresh ==
    /\ requests = 0
    /\ ui = <<>>
    /\ disk = {}
    /\ tmp_file_path = 0
    /\ extracted_text = <<>>
    /\ original_length = 0
    /\ summarizer = 0
    /\ summary_result = <<>>
    /\ summary_length = 0
    /\ compression_ratio = [num |-> 0, den |-> 1]
    /\ model_cache = 0
    /\ pipeline_calls = 0
    /\ pipeline_inits = 0
    /\ session_summary_result = NoResult
    /\ session_stats = NoStats
    /\ tmp_created = 0
    /\ extract_calls = 0
    /\ extract_returned = NoneText
    /\ summarizer_calls = 0
    /\ summarizer_input = <<>>
    /\ reached_load = FALSE
    /\ wrote_result = FALSE
    /\ wrote_stats = FALSE
    /\ pre_summary_result = NoResult
    /\ pre_stats = NoStats
    /\ pre_pipeline_calls = 0
    /\ pre_model_cache = 0

Init ==
    /\ pc = "idle"
    /\ uploaded_file = NoUpload
    /\ Fresh

(* ------------------------------------------------------------------ *)
(* process_document, step by step                                      *)
(* ------------------------------------------------------------------ *)

\* the user presses "Generate Summary": process_document(uploaded_file, ...)
\* up to the end of step 1's progress report; an invalid extension returns here
Begin ==
    /\ pc \in {"idle", "returned"}
    /\ requests < MaxRequests
    /\ \E f \in Uploads :
        /\ uploaded_file' = f
        /\ IF ~is_valid_file_extension(f.name)
           THEN /\ ui' = <<UnsupportedFileType>>
                /\ pc' = "returned"
           ELSE /\ ui' = <<Progress(0), Status("Saving file..."), Progress(20)>>
                /\ pc' = "save"
    /\ requests' = requests + 1
    /\ tmp_file_path' = 0
    /\ extracted_text' = <<>>
    /\ original_length' = 0
    /\ summarizer' = 0
    /\ summary_result' = <<>>
    /\ summary_length' = 0
    /\ compression_ratio' = [num |-> 0, den |-> 1]
    /\ tmp_created' = 0
    /\ extract_calls' = 0
    /\ extract_returned' = NoneText
    /\ summarizer_calls' = 0
    /\ summarizer_input' = <<>>
    /\ reached_load' = FALSE
    /\ wrote_result' = FALSE
    /\ wrote_stats' = FALSE
    /\ pre_summary_result' = session_summary_result
    /\ pre_stats' = session_stats
    /\ pre_pipeline_calls' = pipeline_calls
    /\ pre_model_cache' = model_cache
    /\ UNCHANGED <<disk, process, session>>

\* with tempfile.NamedTemporaryFile(delete=False, ...): write, take the name.
\* The file is named after the request. Creating the file can fail (nothing on
\* disk), and so can writing the bytes (the file stays: delete=False, and the
\* try/finally that removes it has not been entered)
SaveTemp ==
    /\ pc = "save"
    /\ \/ /\ disk' = disk \cup {requests}
          /\ tmp_created' = requests
          /\ tmp_file_path' = requests
          /\ pc' = "extract"
          /\ UNCHANGED <<ui, session>>
       \/ /\ UNCHANGED <<disk, tmp_created, tmp_file_path>>
          /\ ExceptionHandler(ui)
       \/ /\ disk' = disk \cup {requests}
          /\ tmp_created' = requests
          /\ UNCHANGED tmp_file_path
          /\ ExceptionHandler(ui)
    /\ UNCHANGED <<requests, uploaded_file, extracted_text, original_length, summarizer,
                   summary_result, summary_length, compression_ratio, process,
                   extract_calls, extract_returned, summarizer_calls, summarizer_input,
                   reached_load, wrote_result, wrote_stats, pre_summary_result, pre_stats,
                   pre_pipeline_calls, pre_model_cache>>

\* step 2 and step 3: extract, abort on no text, else remember the length and
\* truncate.  rsplit('.', 1)[1] raises IndexError on a name without a dot
Extract ==
    /\ pc = "extract"
    /\ LET shown == ui \o <<Status("Extracting text..."), Progress(40)>>
           r     == extract_text_from_file(uploaded_file.content,
                                           lower(rsplit_ext(uploaded_file.name)))
       IN  IF ~has_dot(uploaded_file.name)
           THEN /\ Finally
                /\ ExceptionHandler(shown)
                /\ UNCHANGED <<extract_calls, extract_returned, extracted_text,
                               original_length>>
           ELSE /\ extract_calls' = extract_calls + 1
                /\ extract_returned' = [some |-> r.some, val |-> r.val]
                /\ IF not_text(r)
                   THEN /\ ui' = shown \o r.errors
                                   \o <<Error("No text could be extracted from the file")>>
                        /\ Finally
                        /\ pc' = "returned"
                        /\ UNCHANGED <<extracted_text, original_length>>
                   ELSE /\ original_length' = Len(r.val)
                        /\ extracted_text' = truncate(r.val)
                        /\ ui' = shown \o r.errors
                                   \o (IF Len(r.val) > MAX_TEXT_LENGTH
                                       THEN <<Warning("Text truncated")>> ELSE <<>>)
                        /\ pc' = "load"
                        /\ UNCHANGED disk
                /\ UNCHANGED session
    /\ UNCHANGED <<requests, uploaded_file, tmp_file_path, summarizer, summary_result,
                   summary_length, compression_ratio, process, tmp_created,
                   summarizer_calls, summarizer_input, reached_load, wrote_result,
                   wrote_stats, pre_summary_result, pre_stats, pre_pipeline_calls, pre_model_cache>>

\* step 4, first half: summarizer = load_summarization_model().  On a cache
\* miss pipeline(...) runs; it either builds a model, which is cached, or raises
Load ==
    /\ pc = "load"
    /\ reached_load' = TRUE
    /\ LET shown == ui \o <<Status("Loading AI model..."), Progress(60)>>
       IN  IF cache_hit
           THEN /\ summarizer' = model_cache
                /\ ui' = shown
                /\ pc' = "summarize"
                /\ UNCHANGED <<process, disk, session>>
           ELSE /\ pipeline_calls' = pipeline_calls + 1
                /\ \/ /\ pipeline_inits' = pipeline_inits + 1
                      /\ model_cache' = pipeline_inits + 1
                      /\ summarizer' = pipeline_inits + 1
                      /\ ui' = shown
                      /\ pc' = "summarize"
                      /\ UNCHANGED <<disk, session>>
                   \/ /\ UNCHANGED <<pipeline_inits, model_cache, summarizer>>
                      /\ Finally
                      /\ ExceptionHandler(shown)
    /\ UNCHANGED <<requests, uploaded_file, tmp_file_path, extracted_text, original_length,
                   summary_result, summary_length, compression_ratio, tmp_created,
                   extract_calls, extract_returned, summarizer_calls, summarizer_input,
                   wrote_result, wrote_stats, pre_summary_result, pre_stats,
                   pre_pipeline_calls, pre_model_cache>>

\* a bug: a failed call of the summarizer is tried again
SummarizeRetrying ==
    /\ pc = "summarize"
    /\ summarizer_calls' = summarizer_calls + 1
    /\ summarizer_input' = extracted_text
    /\ LET shown == ui \o <<Status("Generating summary..."), Progress(80)>>
       IN  \/ \E s \in Summaries :
                /\ summary_result' = s
                /\ ui' = shown
                /\ pc' = "stats"
                /\ UNCHANGED <<disk, session>>
           \/ /\ UNCHANGED <<summary_result, disk, session, ui, pc>>
    /\ UNCHANGED <<requests, uploaded_file, tmp_file_path, extracted_text, original_length,
                   summarizer, summary_length, compression_ratio, process, tmp_created,
                   extract_calls, extract_returned, reached_load, wrote_result,
                   wrote_stats, pre_summary_result, pre_stats, pre_pipeline_calls, pre_model_cache>>

\* step 4, second half: summarizer(extracted_text, ...)[0]['summary_text'];
\* the call returns a summary or raises
Summarize ==
    /\ pc = "summarize"
    /\ summarizer_calls' = summarizer_calls + 1
    /\ summarizer_input' = extracted_text
    /\ LET shown == ui \o <<Status("Generating summary..."), Progress(80)>>
       IN  \/ \E s \in Summaries :
                /\ summary_result' = s
                /\ ui' = shown
                /\ pc' = "stats"
                /\ UNCHANGED <<disk, session>>
           \/ /\ UNCHANGED summary_result
              /\ Finally
              /\ ExceptionHandler(shown)
    /\ UNCHANGED <<requests, uploaded_file, tmp_file_path, extracted_text, original_length,
                   summarizer, summary_length, compression_ratio, process, tmp_created,
                   extract_calls, extract_returned, reached_load, wrote_result,
                   wrote_stats, pre_summary_result, pre_stats, pre_pipeline_calls, pre_model_cache>>

\* step 5, statistics: 1 - (summary_length / original_length) raises
\* ZeroDivisionError when original_length is 0
Stats ==
    /\ pc = "stats"
    /\ LET shown == ui \o <<Progress(100), Status("Summary generated successfully!")>>
       IN  IF original_length = 0
           THEN /\ summary_length' = Len(summary_result)
                /\ UNCHANGED compression_ratio
                /\ Finally
                /\ ExceptionHandler(shown)
           ELSE /\ summary_length' = Len(summary_result)
                /\ compression_ratio' = [num |-> original_length - Len(summary_result),
                                         den |-> original_length]
                /\ ui' = shown
                /\ pc' = "store_result"
                /\ UNCHANGED <<disk, session>>
    /\ UNCHANGED <<requests, uploaded_file, tmp_file_path, extracted_text, original_length,
                   summarizer, summary_result, process, history>>

\* st.session_state.summary_result = {...}
StoreResult ==
    /\ pc = "store_result"
    /\ session_summary_result' =
           [present |-> TRUE, summary |-> summary_result,
            original_text |-> extracted_text, original_length |-> original_length,
            summary_length |-> summary_length]
    /\ wrote_result' = TRUE
    /\ pc' = "store_stats"
    /\ UNCHANGED <<requests, uploaded_file, ui, disk, locals, process, session_stats,
                   tmp_created, extract_calls, extract_returned, summarizer_calls,
                   summarizer_input, reached_load, wrote_stats, pre_summary_result,
                   pre_stats, pre_pipeline_calls, pre_model_cache>>

\* st.session_state.stats = {...}
StoreStats ==
    /\ pc = "store_stats"
    /\ session_stats' =
           [present |-> TRUE, original_length |-> original_length,
            summary_length |-> summary_length, compression_ratio |-> compression_ratio]
    /\ wrote_stats' = TRUE
    /\ pc' = "finish"
    /\ UNCHANGED <<requests, uploaded_file, ui, disk, locals, process,
                   session_summary_result, tmp_created, extract_calls, extract_returned,
                   summarizer_calls, summarizer_input, reached_load, wrote_result,
                   pre_summary_result, pre_stats, pre_pipeline_calls, pre_model_cache>>

\* the progress widgets are emptied, the success message shown, and the
\* finally clause removes the temporary file
Finish ==
    /\ pc = "finish"
    /\ ui' = ui \o <<Empty("progress_bar"), Empty("status_text"),
                     Success("Summary generated successfully!")>>
    /\ Finally
    /\ pc' = "returned"
    /\ UNCHANGED <<requests, uploaded_file, locals, process, session, history>>

Next ==
    \/ Begin
    \/ SaveTemp
    \/ Extract
    \/ Load
    \/ Summarize
    \/ Stats
    \/ StoreResult
    \/ StoreStats
    \/ Finish

Spec == Init /\ [][Next]_vars

(* ------------------------------------------------------------------ *)
(* extract_text_from_file on its own, over every document in bounds    *)
(* ------------------------------------------------------------------ *)

InitExtract ==
    /\ pc = "call"
    /\ uploaded_file \in [name : {<<"a", ".", "p", "d", "f">>, <<"a", ".", "t", "x", "t">>},
                          content : AllDocuments]
    /\ Fresh

\* extracted_text = extract_text_from_file(tmp_file_path, file_extension)
ExtractCall ==
    /\ pc = "call"
    /\ LET r == extract_text_from_file(uploaded_file.content,
                                       lower(rsplit_ext(uploaded_file.name)))
       IN  /\ extract_returned' = [some |-> r.some, val |-> r.val]
           /\ ui' = ui \o r.errors
    /\ extract_calls' = extract_calls + 1
    /\ pc' = "called"
    /\ UNCHANGED <<requests, uploaded_file, disk, locals, process, session, tmp_created,
                   summarizer_calls, summarizer_input, reached_load, wrote_result,
                   wrote_stats, pre_summary_result, pre_stats, pre_pipeline_calls,
                   pre_model_cache>>

NextExtract == ExtractCall

SpecExtract == InitExtract /\ [][NextExtract]_vars

(* ------------------------------------------------------------------ *)
(* Properties                                                          *)
(* ------------------------------------------------------------------ *)

\* some st.error has been shown
HasError(shown) == \E i \in 1..Len(shown) : shown[i].kind = "error"

\* the name ends in a dot followed by an allowed extension, in any letter case
\* (an allowed extension holds no dot, so this is the text after the last dot)
NameEndsWithAllowed(name) ==
    \E e \in ALLOWED_EXTENSIONS :
        /\ Len(name) > Len(e)
        /\ name[Len(name) - Len(e)] = "."
        /\ \A i \in 1..Len(e) : lower_char(name[Len(name) - Len(e) + i]) = e[i]

\* v is u without its leading and trailing whitespace
Trimmed(u, v) ==
    \E a \in 0..Len(u) :
        /\ a + Len(v) <= Len(u)
        /\ \A k \in 1..Len(v) : v[k] = u[a + k]
        /\ \A k \in 1..a : IsSpace(u[k])
        /\ \A k \in (a + Len(v) + 1)..Len(u) : IsSpace(u[k])
        /\ v # <<>> => ~IsSpace(v[1]) /\ ~IsSpace(v[Len(v)])

\* what page i contributes: its text, nothing when it has none
Contribution(pages, i) == IF pages[i].none THEN <<>> ELSE pages[i].text

\* where page i's text starts in the joined text: after the texts of the pages
\* before it and one separator for each
RECURSIVE OffsetOf(_, _)
OffsetOf(pages, i) ==
    IF i = 1 THEN 0
    ELSE OffsetOf(pages, i - 1) + Len(Contribution(pages, i - 1)) + 1

\* the page texts in page order with exactly one space between neighbours
InOrderWithSingleSpaces(pages) ==
    IF pages = <<>> THEN <<>>
    ELSE [k \in 1..(OffsetOf(pages, Len(pages)) + Len(Contribution(pages, Len(pages)))) |->
            IF \E i \in 1..Len(pages) :
                   k > OffsetOf(pages, i) /\ k <= OffsetOf(pages, i) + Len(Contribution(pages, i))
            THEN LET i == CHOOSE j \in 1..Len(pages) :
                              k > OffsetOf(pages, j)
                              /\ k <= OffsetOf(pages, j) + Len(Contribution(pages, j))
                 IN  Contribution(pages, i)[k - OffsetOf(pages, i)]
            ELSE " "]

\* C1 (as claimed): when process_document has returned, the temporary file the
\* request created no longer exists, whichever step failed or succeeded.
C1_TempFileRemoved ==
    (pc = "returned" /\ tmp_created # 0) => tmp_created \notin disk

\* C2: a name with no extension, or with one outside {pdf, txt} (any letter
\* case, after the last dot), gets the validation error naming the allowed set
\* and the request returns with no temporary file created and neither
\* extract_text_from_file nor the summarizer called.
C2_InvalidExtensionRejected ==
    (requests > 0 /\ ~NameEndsWithAllowed(uploaded_file.name)) =>
        /\ pc = "returned"
        /\ ui = <<UnsupportedFileType>>
        /\ ui[1].allowed = ALLOWED_EXTENSIONS
        /\ tmp_created = 0
        /\ requests \notin disk
        /\ extract_calls = 0
        /\ summarizer_calls = 0
        /\ ~reached_load

C2_Witness ==
    /\ pc = "returned"
    /\ uploaded_file.name = <<"a", ".", "d", "o", "c", "x">>
    /\ ui = <<UnsupportedFileType>>

\* C3: a request that ends in an error leaves session_state.summary_result and
\* session_state.stats as they were before it; the two are written only
\* together, and only after the summary has been produced.
C3_NoPartialOutput ==
    /\ (pc = "returned" /\ HasError(ui)) =>
           /\ session_summary_result = pre_summary_result
           /\ session_stats = pre_stats
           /\ ~wrote_result
           /\ ~wrote_stats
    /\ ~wrote_result => session_summary_result = pre_summary_result
    /\ ~wrote_stats => session_stats = pre_stats
    /\ wrote_stats => wrote_result
    /\ pc = "returned" => (wrote_result <=> wrote_stats)
    /\ wrote_result =>
           /\ summarizer_calls = 1
           /\ session_summary_result.present
           /\ session_summary_result.summary = summary_result

C3_Witness ==
    /\ pc = "returned"
    /\ HasError(ui)
    /\ summarizer_calls = 1
    /\ pre_summary_result.present
    /\ session_summary_result = pre_summary_result
    /\ session_stats = pre_stats

\* C4: a request that stores no summary shows at least one error message, and
\* once an error message is shown the request reports no further progress value
\* or status text.
C4_ErrorsShownAndProgressHalts ==
    /\ (pc = "returned" /\ ~wrote_result) => HasError(ui)
    /\ \A i \in 1..Len(ui) : \A j \in 1..Len(ui) :
           (i < j /\ ui[i].kind = "error") => ui[j].kind \notin {"progress", "status"}

C4_Witness ==
    /\ pc = "returned"
    /\ ~wrote_result
    /\ tmp_created # 0
    /\ tmp_file_path = 0
    /\ HasError(ui)
    /\ ui[Len(ui)].kind = "empty"

\* C5 (as claimed): the text passed to the summarizer covers [0, L) of the
\* extracted text with no gap, and is at most MAX_TEXT_LENGTH long.
C5_SummarizerInputCoversText ==
    summarizer_calls > 0 =>
        /\ Len(summarizer_input) <= MAX_TEXT_LENGTH
        /\ summarizer_input = extract_returned.val

\* C5 (amended): one span is passed to the summarizer, the prefix
\* [0, min(L, MAX_TEXT_LENGTH)) of the extracted text: it is at most
\* MAX_TEXT_LENGTH long, and it covers [0, L) exactly when L <= MAX_TEXT_LENGTH.
C5_SummarizerInputIsPrefix ==
    summarizer_calls > 0 =>
        LET L == Len(extract_returned.val)
            n == IF L <= MAX_TEXT_LENGTH THEN L ELSE MAX_TEXT_LENGTH
        IN  /\ summarizer_calls = 1
            /\ Len(summarizer_input) = n
            /\ \A k \in 1..n : summarizer_input[k] = extract_returned.val[k]
            /\ (Len(summarizer_input) = L) <=> (L <= MAX_TEXT_LENGTH)

C5_Witness ==
    /\ summarizer_calls = 1
    /\ Len(extract_returned.val) = MAX_TEXT_LENGTH + 1
    /\ Len(summarizer_input) = MAX_TEXT_LENGTH

\* C6: whenever the compression ratio is computed original_length is greater
\* than zero; a request whose extraction failed or gave empty text has
\* returned without calling the summarizer or reaching the statistics.
C6_NoDivisionByZero ==
    /\ pc = "stats" => original_length > 0
    /\ pc \in {"store_result", "store_stats", "finish"} => compression_ratio.den > 0
    /\ (extract_calls = 1 /\ (~extract_returned.some \/ extract_returned.val = <<>>)) =>
           /\ pc = "returned"
           /\ summarizer_calls = 0
           /\ ~wrote_stats

C6_Witness ==
    /\ pc = "stats"
    /\ original_length = 1
    /\ requests = 2
    /\ pre_stats.present

\* C7: the model is built at most once in a process; once it is cached every
\* request uses that instance and pipeline() is not called again; a request
\* that has not reached the load step has not called pipeline().
C7_ModelLoadedOnce ==
    /\ pipeline_inits <= 1
    /\ model_cache \in {0, 1}
    /\ summarizer # 0 => (summarizer = 1 /\ model_cache = 1)
    /\ pre_model_cache # 0 =>
           /\ pipeline_calls = pre_pipeline_calls
           /\ model_cache = pre_model_cache
    /\ ~reached_load => pipeline_calls = pre_pipeline_calls

C7_Witness ==
    /\ requests = 2
    /\ pre_model_cache = 1
    /\ summarizer = 1
    /\ pipeline_inits = 1
    /\ pc = "summarize"

\* C8: for a PDF, extract_text_from_file returns the page texts in page order
\* joined by exactly one space (a page without text contributing nothing),
\* trimmed of surrounding whitespace; two pages of which the second has no
\* text give exactly the trimmed text of page 1.
C8_PdfExtraction ==
    (pc = "called"
     /\ lower(rsplit_ext(uploaded_file.name)) = <<"p", "d", "f">>
     /\ uploaded_file.content.kind = "pdf") =>
        LET pages == uploaded_file.content.pages
        IN  /\ extract_returned.some
            /\ Trimmed(InOrderWithSingleSpaces(pages), extract_returned.val)
            /\ (Len(pages) = 2 /\ Contribution(pages, 2) = <<>>) =>
                   Trimmed(Contribution(pages, 1), extract_returned.val)

C8_Witness ==
    /\ pc = "called"
    /\ uploaded_file.content = PdfDoc(<<[none |-> FALSE, text |-> <<" ", "a">>], NonePage>>)
    /\ uploaded_file.name = <<"a", ".", "p", "d", "f">>
    /\ extract_returned = [some |-> TRUE, val |-> <<"a">>]

\* C9: within one request the summarizer is called at most once; it is called
\* only for a valid extension and a non-empty extracted text; a failed call
\* ends the request with an error message, without a second call.
C9_SummarizerCalledOnce ==
    /\ summarizer_calls <= 1
    /\ summarizer_calls = 1 =>
           /\ NameEndsWithAllowed(uploaded_file.name)
           /\ extract_calls = 1
           /\ extract_returned.some
           /\ extract_returned.val # <<>>
           /\ summarizer_input # <<>>
    /\ (summarizer_calls = 1 /\ pc \notin {"stats", "store_result", "store_stats", "finish"}
          /\ ~wrote_stats) =>
           /\ pc = "returned"
           /\ HasError(ui)

C9_Witness ==
    /\ pc = "returned"
    /\ summarizer_calls = 1
    /\ ~wrote_result
    /\ HasError(ui)
    /\ tmp_created \notin disk

\* C10 (as claimed): after a successful request the stored original_text is
\* the full extracted text, original_length is its length, summary_length is
\* the length of the stored summary, and compression_ratio is
\* 1 - summary_length/original_length.
C10_StoredResultConsistent ==
    (pc = "returned" /\ wrote_stats) =>
        /\ session_summary_result.original_text = extract_returned.val
        /\ session_summary_result.original_length = Len(session_summary_result.original_text)
        /\ session_summary_result.summary_length = Len(session_summary_result.summary)
        /\ session_stats.original_length = session_summary_result.original_length
        /\ session_stats.summary_length = session_summary_result.summary_length
        /\ session_stats.compression_ratio.den > 0
        /\ session_stats.compression_ratio.num * session_stats.original_length
             = (session_stats.original_length - session_stats.summary_length)
                 * session_stats.compression_ratio.den

====
